---------------------------- MODULE Spec2Model ----------------------------
(***************************************************************************)
(* Model of the repository file/content synchronisation of the editor:     *)
(* the App component's state (src/src/App.tsx), the FileTree component's   *)
(* folder click and create handlers (src/src/components/FileTree.tsx),     *)
(* and the remote source-hosting service the handlers call.                *)
(*                                                                         *)
(* Every async handler is split at its awaits: the step that issues the    *)
(* call puts a record into the sequence of calls in flight, holding the    *)
(* values the handler's closure captured at the render it was created in;  *)
(* the step that resolves it applies the continuation with those captured  *)
(* values (React state read through a closure is the state at that         *)
(* render, functional updates `prev => ...` read the current state).       *)
(***************************************************************************)
EXTENDS Naturals, Sequences, FiniteSets, TLC

(***************************************************************************)
(* Bounds of the model.                                                    *)
(***************************************************************************)
\* operations the user starts in one behaviour (typing is bounded by Typed)
MaxUserOps == 5
\* remote calls in flight at the same time
MaxInFlight == 2
\* nodes in the root list `files`
MaxFiles == 4
\* writes to the repository by somebody else
MaxRemoteChanges == 1
\* operations within which the token form is used
MaxFormOps == 3

None == "none"

(***************************************************************************)
(* The remote service: repositories, branches, trees and file contents.    *)
(***************************************************************************)
Repos == {"r1", "r2"}

DefaultBranch(repo) == "main"

BranchesOf(repo) == IF repo = "r1" THEN <<"main", "dev">> ELSE <<"main">>

\* Names the user gives to branches created from the editor.
NewBranchNames == {"feat"}

Branches == {"main", "dev"} \cup NewBranchNames

Refs == {<<"r1", "main">>, <<"r1", "dev">>, <<"r2", "main">>}

FilePaths == {"index.html", "app.js", "src/util.js", "new.js"}
DirPaths == {"src", "lib"}

\* The listing of directory `dir` ("" is the root) at `ref`: path and type of
\* each entry, in the order the service returns them.
RemoteListing(ref, dir) ==
    CASE ref = <<"r1", "main">> /\ dir = "" ->
            << [path |-> "index.html", type |-> "file"],
               [path |-> "app.js", type |-> "file"],
               [path |-> "src", type |-> "dir"] >>
      [] ref = <<"r1", "main">> /\ dir = "src" -> << >>
      [] ref = <<"r1", "dev">> /\ dir = "" ->
            << [path |-> "index.html", type |-> "file"],
               [path |-> "src", type |-> "dir"] >>
      [] ref = <<"r1", "dev">> /\ dir = "src" ->
            << [path |-> "src/util.js", type |-> "file"] >>
      [] ref = <<"r2", "main">> /\ dir = "" ->
            << [path |-> "index.html", type |-> "file"] >>
      [] OTHER -> << >>

\* Whether the service has a directory `dir` at `ref`.
RemoteHasDir(ref, dir) ==
    \/ dir = ""
    \/ /\ dir = "src"
       /\ ref \in {<<"r1", "main">>, <<"r1", "dev">>}

RemoteFilesAt(ref) ==
    CASE ref = <<"r1", "main">> -> {"index.html", "app.js"}
      [] ref = <<"r1", "dev">> -> {"index.html", "src/util.js"}
      [] ref = <<"r2", "main">> -> {"index.html"}

InitContent(ref, path) ==
    CASE ref = <<"r1", "main">> /\ path = "index.html" -> "r1-main-index"
      [] ref = <<"r1", "main">> /\ path = "app.js" -> "r1-main-app"
      [] ref = <<"r1", "dev">> /\ path = "index.html" -> "r1-dev-index"
      [] ref = <<"r1", "dev">> /\ path = "src/util.js" -> "r1-dev-util"
      [] ref = <<"r2", "main">> -> "r2-main-index"

\* Revision tokens are opaque; the model numbers them, from a different
\* start in every branch so that a token of one branch matches no other.
InitSha(ref) ==
    CASE ref = <<"r1", "main">> -> 10
      [] ref = <<"r1", "dev">> -> 20
      [] ref = <<"r2", "main">> -> 30

\* Texts the user types into the editor.
Typed == {"x"}

NoNode == [path |-> None, type |-> None, sha |-> 0, origin |-> <<None, None>>]

\* A Map of the program is a function over all paths; NoEntry marks a path
\* that is not a key of the Map.
Paths == FilePaths \cup DirPaths
NoLocal == [has |-> FALSE, content |-> ""]
NoListing == [has |-> FALSE, items |-> << >>]

VARIABLES
    \* ---- App state (useState hooks of App) ----
    tokensConfigured, isAuthenticated, githubAPI, user,
    repos, selectedRepo, branches, selectedBranch,
    files, selectedFile, fileContent, originalContent,
    expandedFolders, localFiles, folderContents,
    loading, commits,
    \* ---- calls in flight: the suspended async handlers ----
    loads,      \* handleAuth, handleRepoSelect, handleBranchSelect/loadRepoFiles
    selects,    \* handleFileSelect awaiting getFileContent
    saves,      \* handleSave awaiting updateFile / getCommits
    listings,   \* handleFolderClick awaiting onLoadFolderContents
    asks,       \* AIAgent.handleSendMessage awaiting generateResponse
    timers,     \* AIAgent's setTimeout callbacks not yet run
    \* ---- TokenSetup state (mounted while tokensConfigured is false) ----
    formToken,  \* field -> the text in the field
    formValid,  \* field -> "null", "true" or "false"
    verifs,     \* verifications scheduled by a change and not yet resolved
    \* ---- the remote service ----
    remote,     \* ref -> path -> [content, sha]
    branchBase, \* ref -> the branch of the start whose tree it has
    \* ---- observation ----
    event,      \* what the last step did, and the message it showed the user
    lastSaved,  \* ref -> path -> the content of the last successful save
                \*   with no later write by somebody else (None otherwise)
    userOps, remoteChanges

authVars == <<tokensConfigured, isAuthenticated, githubAPI, user>>
repoVars == <<repos, selectedRepo, branches, selectedBranch, commits>>
treeVars == <<files, expandedFolders, folderContents>>
sessionVars == <<selectedFile, fileContent, originalContent, localFiles>>
aiVars == <<asks, timers>>
flightVars == <<loads, selects, saves, listings, aiVars>>
serverVars == <<remote, branchBase, lastSaved, remoteChanges>>

formVars == <<formToken, formValid, verifs>>

vars == <<authVars, repoVars, treeVars, sessionVars, flightVars, serverVars,
          formVars, loading, event, userOps>>


(***************************************************************************)
(* Helpers.                                                                *)
(***************************************************************************)
RemoveAt(s, i) == SubSeq(s, 1, i - 1) \o SubSeq(s, i + 1, Len(s))

InFlight ==
    Len(loads) + Len(selects) + Len(saves) + Len(listings) + Len(asks) + Len(timers)

CanIssue == InFlight < MaxInFlight

CanAct == userOps < MaxUserOps

\* App's render: TokenSetup unless tokensConfigured, the sign-in card unless
\* isAuthenticated, the editor otherwise.
MainUI == tokensConfigured /\ isAuthenticated

LocalOrigin == <<"local", "local">>

\* What a step reports: its name and the alert() it raised (None: no alert);
\* for a select, also whether its file was the selected one already.
Ev(op, alert) == [op |-> op, alert |-> alert, again |-> FALSE]

EvSelect(op, file) == [op |-> op, alert |-> None, again |-> selectedFile = file]

\* The effect after every render: setHasChanges(fileContent !== originalContent).
hasChanges == fileContent # originalContent

\* The values of a handler's closure that its continuation reads later:
\* the repository and the branch selected at the render of the handler.
Closure == [repo |-> selectedRepo, branch |-> selectedBranch]

(***************************************************************************)
(* The remote service's answers.                                           *)
(***************************************************************************)
\* getRepoContents: the entries of a directory with their current tokens.
ListingNodes(ref, dir) ==
    [i \in 1..Len(RemoteListing(branchBase[ref], dir)) |->
        LET e == RemoteListing(branchBase[ref], dir)[i] IN
        [path |-> e.path, type |-> e.type,
         sha |-> IF e.type = "file" THEN remote[ref][e.path].sha ELSE 0,
         origin |-> ref]]

\* getBranches: the branches of the start, then those created since.
RemoteBranches(repo) ==
    LET RECURSIVE Created(_)
        Created(names) ==
            IF names = {} THEN << >>
            ELSE LET n == CHOOSE x \in names : TRUE IN
                 (IF <<repo, n>> \in DOMAIN remote THEN <<n>> ELSE << >>)
                     \o Created(names \ {n})
    IN BranchesOf(repo) \o Created(NewBranchNames)

\* The service knows the branch of the repository.
RemoteHasRef(ref) == ref \in DOMAIN remote

\* getFileContent answers for a path the branch holds.
RemoteHasFile(ref, path) == RemoteHasRef(ref) /\ path \in DOMAIN remote[ref]

\* getCommits: the number of commits made on the branch since the start.
RECURSIVE SumWrites(_, _)
SumWrites(ref, ps) ==
    IF ps = {} THEN 0
    ELSE LET p == CHOOSE q \in ps : TRUE IN
         (remote[ref][p].sha - InitSha(branchBase[ref])) + SumWrites(ref, ps \ {p})

CommitsAt(ref) == [ref |-> ref, count |-> SumWrites(ref, DOMAIN remote[ref])]

NoCommits == [ref |-> <<None, None>>, count |-> 0]

(***************************************************************************)
(* TokenSetup: the two token fields and their verification.                *)
(***************************************************************************)
Fields == {"github", "gemini"}

\* Texts the user puts into a token field.
TokenValues == {"good", "bad"}

\* The state of a freshly mounted TokenSetup.
FormEmpty ==
    [token |-> [f \in Fields |-> ""], valid |-> [f \in Fields |-> "null"]]

\* The checks before a verification is scheduled: a non-blank value with the
\* prefix of a GitHub token, or of more than 20 characters for Gemini.
WellFormed(field, value) == value \in TokenValues

\* The answer of the service a token is verified against: response.ok.
ServiceAccepts(value) == value = "good"

(***************************************************************************)
(* The state after construction.                                           *)
(***************************************************************************)
Init ==
    /\ tokensConfigured = FALSE
    /\ isAuthenticated = FALSE
    /\ githubAPI = FALSE
    /\ user = FALSE
    /\ repos = {}
    /\ selectedRepo = None
    /\ branches = << >>
    /\ selectedBranch = None
    /\ files = << >>
    /\ selectedFile = NoNode
    /\ fileContent = ""
    /\ originalContent = ""
    /\ expandedFolders = {}
    /\ localFiles = [p \in Paths |-> NoLocal]
    /\ folderContents = [p \in Paths |-> NoListing]
    /\ loading = FALSE
    /\ commits = NoCommits
    /\ loads = << >>
    /\ selects = << >>
    /\ saves = << >>
    /\ listings = << >>
    /\ asks = << >>
    /\ timers = << >>
    /\ formToken = FormEmpty.token
    /\ formValid = FormEmpty.valid
    /\ verifs = << >>
    /\ remote = [ref \in Refs |->
                    [p \in RemoteFilesAt(ref) |->
                        [content |-> InitContent(ref, p), sha |-> InitSha(ref)]]]
    /\ branchBase = [ref \in Refs |-> ref]
    /\ lastSaved = [ref \in Refs |-> [p \in RemoteFilesAt(ref) |-> None]]
    /\ event = Ev("Init", None)
    /\ userOps = 0
    /\ remoteChanges = 0

(***************************************************************************)
(* handleAuth (also reached from handleTokensSubmit and the mount effect). *)
(***************************************************************************)
LoadRec(kind, stage, repo, branch) ==
    [kind |-> kind, stage |-> stage, repo |-> repo, branch |-> branch,
     fileData |-> << >>, cap |-> Closure, api |-> githubAPI, local |-> localFiles]

HandleAuth ==
    /\ ~isAuthenticated
    /\ CanAct /\ CanIssue
    /\ tokensConfigured' = TRUE
    /\ loading' = TRUE
    /\ loads' = Append(loads, LoadRec("auth", "user", None, None))
    /\ event' = Ev("HandleAuth", None)
    /\ userOps' = userOps + 1
    /\ formToken' = FormEmpty.token
    /\ formValid' = FormEmpty.valid
    /\ verifs' = << >>
    /\ UNCHANGED <<aiVars, isAuthenticated, githubAPI, user, repoVars, treeVars,
                   sessionVars, selects, saves, listings, serverVars>>

\* handleGithubTokenChange / handleGeminiTokenChange: the value is stored,
\* the mark is cleared, and a verification of the value is scheduled.
handleTokenChange(field, value) ==
    /\ ~tokensConfigured
    /\ CanAct /\ userOps < MaxFormOps
    /\ Len(verifs) < MaxInFlight
    /\ value # formToken[field]
    /\ formToken' = [formToken EXCEPT ![field] = value]
    /\ formValid' = [formValid EXCEPT ![field] = "null"]
    /\ verifs' = IF WellFormed(field, value)
                 THEN Append(verifs, [field |-> field, token |-> value])
                 ELSE verifs
    /\ event' = Ev("TokenChange", None)
    /\ userOps' = userOps + 1
    /\ UNCHANGED <<authVars, repoVars, treeVars, sessionVars, flightVars,
                   serverVars, loading>>

\* verifyGithubToken / verifyGeminiToken: the fetch resolves (response.ok)
\* or rejects; the mark of the field is set to the outcome.
verifyToken(i, reached) ==
    /\ ~tokensConfigured
    /\ formValid' = [formValid EXCEPT ![verifs[i].field] =
                        IF reached /\ ServiceAccepts(verifs[i].token)
                        THEN "true" ELSE "false"]
    /\ verifs' = RemoveAt(verifs, i)
    /\ event' = Ev("TokenVerified", None)
    /\ UNCHANGED <<authVars, repoVars, treeVars, sessionVars, flightVars,
                   serverVars, formToken, loading, userOps>>

\* TokenSetup.handleSubmit: with both marks set and both fields filled,
\* onTokensSubmit (handleTokensSubmit, then handleAuth) is called with the
\* texts of the fields; TokenSetup is unmounted.
handleSubmit ==
    /\ ~tokensConfigured /\ ~isAuthenticated
    /\ \A f \in Fields : formValid[f] = "true" /\ formToken[f] # ""
    /\ CanAct /\ CanIssue
    /\ tokensConfigured' = TRUE
    /\ loading' = TRUE
    /\ loads' = Append(loads, LoadRec("auth", "user", None, None))
    /\ event' = Ev("Submit", None)
    /\ userOps' = userOps + 1
    /\ formToken' = FormEmpty.token
    /\ formValid' = FormEmpty.valid
    /\ verifs' = << >>
    /\ UNCHANGED <<aiVars, isAuthenticated, githubAPI, user, repoVars, treeVars,
                   sessionVars, selects, saves, listings, serverVars>>

AuthUserOK(i) ==
    /\ loads[i].kind = "auth" /\ loads[i].stage = "user"
    /\ githubAPI' = TRUE
    /\ user' = TRUE
    /\ isAuthenticated' = TRUE
    /\ loads' = [loads EXCEPT ![i].stage = "repos"]
    /\ event' = Ev("AuthUserOK", None)
    /\ UNCHANGED <<formVars, aiVars, tokensConfigured, repoVars, treeVars, sessionVars, selects,
                   saves, listings, serverVars, loading, userOps>>

AuthReposOK(i) ==
    /\ loads[i].kind = "auth" /\ loads[i].stage = "repos"
    /\ repos' = Repos
    /\ loading' = FALSE
    /\ loads' = RemoveAt(loads, i)
    /\ event' = Ev("AuthReposOK", None)
    /\ UNCHANGED <<formVars, aiVars, authVars, selectedRepo, branches, selectedBranch, commits,
                   treeVars, sessionVars, selects, saves, listings, serverVars,
                   userOps>>

\* getUser or getRepositories rejects: the catch block of handleAuth.
AuthFail(i) ==
    /\ loads[i].kind = "auth"
    /\ loading' = FALSE
    /\ loads' = RemoveAt(loads, i)
    /\ event' = Ev("AuthFail", "Authentication failed")
    /\ UNCHANGED <<formVars, aiVars, authVars, repoVars, treeVars, sessionVars, selects, saves,
                   listings, serverVars, userOps>>

handleLogout ==
    /\ MainUI
    /\ CanAct
    /\ isAuthenticated' = FALSE
    /\ githubAPI' = FALSE
    /\ user' = FALSE
    /\ repos' = {}
    /\ selectedRepo' = None
    /\ branches' = << >>
    /\ selectedBranch' = None
    /\ files' = << >>
    /\ selectedFile' = NoNode
    /\ fileContent' = ""
    /\ originalContent' = ""
    /\ localFiles' = [p \in Paths |-> NoLocal]
    /\ folderContents' = [p \in Paths |-> NoListing]
    /\ tokensConfigured' = FALSE
    /\ event' = Ev("Logout", None)
    /\ userOps' = userOps + 1
    /\ UNCHANGED <<formVars, commits, expandedFolders, flightVars, serverVars, loading>>

(***************************************************************************)
(* handleRepoSelect, handleBranchSelect and loadRepoFiles.                 *)
(***************************************************************************)
\* branchData.find(b => b.name === repo.default_branch) || branchData[0]
FindDefaultBranch(repo, branchData) ==
    IF \E k \in 1..Len(branchData) : branchData[k] = DefaultBranch(repo)
    THEN DefaultBranch(repo)
    ELSE IF Len(branchData) > 0 THEN branchData[1] ELSE None

\* fileData.find(f => f.name === 'index.html' && f.type === 'file')
FindIndexFile(fileData) ==
    IF \E k \in 1..Len(fileData) :
          fileData[k].path = "index.html" /\ fileData[k].type = "file"
    THEN fileData[CHOOSE k \in 1..Len(fileData) :
                    /\ fileData[k].path = "index.html" /\ fileData[k].type = "file"
                    /\ \A j \in 1..(k - 1) :
                          ~(fileData[j].path = "index.html" /\ fileData[j].type = "file")]
    ELSE NoNode

handleRepoSelect(repo) ==
    /\ MainUI
    /\ repo \in repos
    /\ githubAPI
    /\ CanAct /\ CanIssue
    /\ loading' = TRUE
    /\ selectedRepo' = repo
    /\ loads' = Append(loads, LoadRec("repo", "branches", repo, None))
    /\ event' = Ev("RepoSelect", None)
    /\ userOps' = userOps + 1
    /\ UNCHANGED <<formVars, aiVars, authVars, repos, branches, selectedBranch, commits, treeVars,
                   sessionVars, selects, saves, listings, serverVars>>

\* getBranches resolves: setBranches, the default branch is selected and
\* loadRepoFiles starts (its githubAPI is the closure's).
BranchesOK(i) ==
    LET l == loads[i]
        branchData == RemoteBranches(l.repo)
        defaultBranch == FindDefaultBranch(l.repo, branchData)
    IN
    /\ l.kind = "repo" /\ l.stage = "branches"
    /\ branches' = branchData
    /\ IF defaultBranch # None
       THEN /\ selectedBranch' = defaultBranch
            /\ IF l.api
               THEN /\ loading' = TRUE
                    /\ loads' = [loads EXCEPT ![i].stage = "root",
                                              ![i].branch = defaultBranch]
               ELSE /\ loading' = FALSE
                    /\ loads' = RemoveAt(loads, i)
       ELSE /\ selectedBranch' = selectedBranch
            /\ loading' = FALSE
            /\ loads' = RemoveAt(loads, i)
    /\ event' = Ev("BranchesOK", None)
    /\ UNCHANGED <<formVars, aiVars, authVars, repos, selectedRepo, commits, treeVars, sessionVars,
                   selects, saves, listings, serverVars, userOps>>

handleBranchSelect(branch) ==
    /\ MainUI
    /\ \E k \in 1..Len(branches) : branches[k] = branch
    /\ githubAPI /\ selectedRepo # None
    /\ CanAct /\ CanIssue
    /\ selectedBranch' = branch
    /\ loading' = TRUE
    /\ loads' = Append(loads, LoadRec("branch", "root", selectedRepo, branch))
    /\ event' = Ev("BranchSelect", None)
    /\ userOps' = userOps + 1
    /\ UNCHANGED <<formVars, aiVars, authVars, repos, selectedRepo, branches, commits, treeVars,
                   sessionVars, selects, saves, listings, serverVars>>

\* loadRepoFiles: the root listing resolves.
RootOK(i) ==
    LET l == loads[i]
        fileData == ListingNodes(<<l.repo, l.branch>>, "")
    IN
    /\ l.kind \in {"repo", "branch"} /\ l.stage = "root"
    /\ RemoteHasRef(<<l.repo, l.branch>>)
    /\ files' = fileData
    /\ loads' = [loads EXCEPT ![i].stage = "commits", ![i].fileData = fileData]
    /\ event' = Ev("RootOK", None)
    /\ UNCHANGED <<formVars, aiVars, authVars, repoVars, expandedFolders, folderContents,
                   sessionVars, selects, saves, listings, serverVars, loading,
                   userOps>>

\* loadRepoFiles: the commit list resolves; index.html, if listed, is handed
\* to the handleFileSelect of the same render.
CommitsOK(i) ==
    LET l == loads[i]
        indexFile == FindIndexFile(l.fileData)
    IN
    /\ l.kind \in {"repo", "branch"} /\ l.stage = "commits"
    /\ RemoteHasRef(<<l.repo, l.branch>>)
    /\ commits' = CommitsAt(<<l.repo, l.branch>>)
    /\ IF indexFile = NoNode
       THEN /\ loading' = FALSE
            /\ loads' = RemoveAt(loads, i)
            /\ UNCHANGED sessionVars
       ELSE IF l.local[indexFile.path].has
       THEN /\ selectedFile' = indexFile
            /\ fileContent' = l.local[indexFile.path].content
            /\ originalContent' = l.local[indexFile.path].content
            /\ loading' = FALSE
            /\ loads' = RemoveAt(loads, i)
            /\ UNCHANGED localFiles
       ELSE IF ~l.api \/ l.cap.repo = None \/ l.cap.branch = None
       THEN /\ loading' = FALSE
            /\ loads' = RemoveAt(loads, i)
            /\ UNCHANGED sessionVars
       ELSE /\ loading' = TRUE
            /\ loads' = [loads EXCEPT ![i].stage = "index"]
            /\ UNCHANGED sessionVars
    /\ event' = Ev("CommitsOK", None)
    /\ UNCHANGED <<formVars, aiVars, authVars, repos, selectedRepo, branches, selectedBranch,
                   treeVars, selects, saves, listings, serverVars, userOps>>

\* A select that leaves the saved snapshot as it was.
LoadedOriginalKept(content, oc) == oc

\* setOriginalContent(content) of handleFileSelect.
LoadedOriginal(content, oc) == content

\* The content of index.html resolves: fetched from the repository and the
\* branch of the closure, that is, those selected before the switch.
IndexOK(i) ==
    LET l == loads[i]
        indexFile == FindIndexFile(l.fileData)
        ref == <<l.cap.repo, l.cap.branch>>
    IN
    /\ l.kind \in {"repo", "branch"} /\ l.stage = "index"
    /\ RemoteHasFile(ref, indexFile.path)
    /\ selectedFile' = indexFile
    /\ fileContent' = remote[ref][indexFile.path].content
    /\ originalContent' = LoadedOriginal(remote[ref][indexFile.path].content,
                                         originalContent)
    /\ loading' = FALSE
    /\ loads' = RemoveAt(loads, i)
    /\ event' = Ev("IndexOK", None)
    /\ UNCHANGED <<formVars, aiVars, authVars, repoVars, treeVars, localFiles, selects, saves,
                   listings, serverVars, userOps>>

\* A call of handleRepoSelect or loadRepoFiles rejects: both catch blocks only
\* log to the console; both finally blocks clear the loading flag.
LoadFail(i) ==
    LET l == loads[i] IN
    /\ l.kind \in {"repo", "branch"}
    /\ loading' = FALSE
    /\ loads' = RemoveAt(loads, i)
    /\ event' = Ev("LoadFail", None)
    /\ UNCHANGED <<formVars, aiVars, authVars, repoVars, treeVars, sessionVars, selects, saves,
                   listings, serverVars, userOps>>

(***************************************************************************)
(* handleCreateBranch.                                                     *)
(***************************************************************************)
\* The call starts: createBranch from the head of the selected branch.
handleCreateBranch(branchName) ==
    /\ MainUI
    /\ githubAPI /\ selectedRepo # None /\ selectedBranch # None
    /\ CanAct /\ CanIssue
    /\ loading' = TRUE
    /\ loads' = Append(loads, LoadRec("newbranch", "create", selectedRepo, branchName))
    /\ event' = Ev("CreateBranchIssued", None)
    /\ userOps' = userOps + 1
    /\ UNCHANGED <<formVars, aiVars, authVars, repoVars, treeVars, sessionVars, selects, saves,
                   listings, serverVars>>

\* createBranch resolves: the service has a new branch with the tree of the
\* branch it was made from; getBranches is called next.
CreateBranchOK(i) ==
    LET l == loads[i]
        from == <<l.cap.repo, l.cap.branch>>
        new == <<l.repo, l.branch>>
    IN
    /\ l.kind = "newbranch" /\ l.stage = "create"
    /\ RemoteHasRef(from) /\ ~RemoteHasRef(new)
    /\ remote' = (new :> remote[from]) @@ remote
    /\ branchBase' = (new :> branchBase[from]) @@ branchBase
    /\ lastSaved' = (new :> [p \in DOMAIN remote[from] |-> None]) @@ lastSaved
    /\ loads' = [loads EXCEPT ![i].stage = "branches"]
    /\ event' = Ev("CreateBranchOK", None)
    /\ UNCHANGED <<formVars, aiVars, authVars, repoVars, treeVars, sessionVars, selects, saves,
                   listings, remoteChanges, loading, userOps>>

\* getBranches resolves: setBranches, setSelectedBranch(newBranch), the
\* success alert; loadRepoFiles is not called.
CreateBranchListed(i) ==
    LET l == loads[i]
        branchData == RemoteBranches(l.repo)
    IN
    /\ l.kind = "newbranch" /\ l.stage = "branches"
    /\ branches' = branchData
    /\ selectedBranch' = IF \E k \in 1..Len(branchData) : branchData[k] = l.branch
                         THEN l.branch ELSE selectedBranch
    /\ loading' = FALSE
    /\ loads' = RemoveAt(loads, i)
    /\ event' = Ev("CreateBranchListed", "Branch created successfully!")
    /\ UNCHANGED <<formVars, aiVars, authVars, repos, selectedRepo, commits, treeVars, sessionVars,
                   selects, saves, listings, serverVars, userOps>>

\* createBranch or getBranches rejects: the catch block alerts.
CreateBranchFail(i) ==
    /\ loads[i].kind = "newbranch"
    /\ loading' = FALSE
    /\ loads' = RemoveAt(loads, i)
    /\ event' = Ev("CreateBranchFail", "Failed to create branch")
    /\ UNCHANGED <<formVars, aiVars, authVars, repoVars, treeVars, sessionVars, selects, saves,
                   listings, serverVars, userOps>>

(***************************************************************************)
(* The displayed tree: FileTree.renderFileTree.                            *)
(***************************************************************************)
\* The nodes renderFileTree(fileList) draws, in order: every node of the
\* list and, under an expanded directory with a cache entry, its children.
RECURSIVE RenderFileTree(_, _)
RenderFileTree(fileList, depth) ==
    IF fileList = << >> \/ depth = 0 THEN << >>
    ELSE LET file == Head(fileList)
             below == IF /\ file.type = "dir"
                         /\ file.path \in expandedFolders
                         /\ folderContents[file.path].has
                      THEN RenderFileTree(folderContents[file.path].items, depth - 1)
                      ELSE << >>
         IN <<file>> \o below \o RenderFileTree(Tail(fileList), depth)

MaxDepth == 3

Displayed == RenderFileTree(files, MaxDepth)

DisplayedSet == {Displayed[k] : k \in 1..Len(Displayed)}

CountPath(p) == Cardinality({k \in 1..Len(Displayed) : Displayed[k].path = p})

(***************************************************************************)
(* handleFileSelect.                                                       *)
(***************************************************************************)
\* Every fetch in flight when a later handleFileSelect is called is
\* superseded by that call (a mark of the model, read by no handler).
Supersede(ss) == [k \in 1..Len(ss) |-> [ss[k] EXCEPT !.superseded = TRUE]]

\* A select that never looks into the overlay.
IsLocalNever(overlay, path) == FALSE

\* localFiles.has(file.path)
IsLocal(overlay, path) == overlay[path].has

handleFileSelect(file) ==
    /\ MainUI
    /\ file \in DisplayedSet
    /\ file.type = "file"
    /\ CanAct
    /\ IF IsLocal(localFiles, file.path)
       THEN /\ selectedFile' = file
            /\ fileContent' = localFiles[file.path].content
            /\ originalContent' = LoadedOriginal(localFiles[file.path].content,
                                                 originalContent)
            /\ selects' = Supersede(selects)
            /\ event' = EvSelect("SelectLocal", file)
            /\ UNCHANGED loading
       ELSE /\ githubAPI /\ selectedRepo # None /\ selectedBranch # None
            /\ CanIssue
            /\ loading' = TRUE
            /\ selects' = Append(Supersede(selects),
                                  [file |-> file, cap |-> Closure,
                                   superseded |-> FALSE])
            /\ event' = Ev("SelectIssued", None)
            /\ UNCHANGED <<selectedFile, fileContent, originalContent>>
    /\ userOps' = userOps + 1
    /\ UNCHANGED <<formVars, aiVars, authVars, repoVars, treeVars, localFiles, loads, saves,
                   listings, serverVars>>

\* What the resolved fetch is applied to: the file of the call.
SelectTarget(s) == s.file

\* getFileContent resolves.
SelectOK(i) ==
    LET s == selects[i]
        ref == <<s.cap.repo, s.cap.branch>>
    IN
    /\ RemoteHasFile(ref, s.file.path)
    /\ selectedFile' = SelectTarget(s)
    /\ fileContent' = remote[ref][s.file.path].content
    /\ originalContent' = LoadedOriginal(remote[ref][s.file.path].content,
                                         originalContent)
    /\ loading' = FALSE
    /\ selects' = RemoveAt(selects, i)
    /\ event' = EvSelect("SelectOK", s.file)
    /\ UNCHANGED <<formVars, aiVars, authVars, repoVars, treeVars, localFiles, loads, saves,
                   listings, serverVars, userOps>>

\* A catch block that closes the file that was open.
SelectFailClears(i) ==
    /\ loading' = FALSE
    /\ selects' = RemoveAt(selects, i)
    /\ selectedFile' = NoNode
    /\ fileContent' = ""
    /\ originalContent' = ""
    /\ event' = Ev("SelectFail", None)
    /\ UNCHANGED <<formVars, aiVars, authVars, repoVars, treeVars, localFiles, loads, saves,
                   listings, serverVars, userOps>>

\* getFileContent rejects: logged to the console only.
SelectFail(i) ==
    LET s == selects[i] IN
    /\ loading' = FALSE
    /\ selects' = RemoveAt(selects, i)
    /\ event' = Ev("SelectFail", None)
    /\ UNCHANGED <<formVars, aiVars, authVars, repoVars, treeVars, sessionVars, loads, saves,
                   listings, serverVars, userOps>>

(***************************************************************************)
(* The editor's onChange: setFileContent.                                  *)
(***************************************************************************)
edit(newText) ==
    /\ MainUI
    /\ selectedFile # NoNode
    /\ newText # fileContent
    /\ fileContent' = newText
    /\ event' = Ev("Edit", None)
    /\ UNCHANGED <<formVars, authVars, repoVars, treeVars, selectedFile, originalContent,
                   localFiles, flightVars, serverVars, loading, userOps>>

(***************************************************************************)
(* handleSave.                                                             *)
(***************************************************************************)
\* A handleSave that sends the snapshot instead of the editor's text.
SavePayloadOriginal(fc, oc) == oc

\* The content handleSave sends and, on success, records as saved.
SavePayload(fc, oc) == fc

\* An overlay update that keeps the written entry only.
SetLocalAlone(prev, path, content) ==
    [p \in Paths |-> IF p = path THEN [has |-> TRUE, content |-> content]
                     ELSE NoLocal]

\* new Map(prev).set(path, content)
SetLocal(prev, path, content) ==
    [prev EXCEPT ![path] = [has |-> TRUE, content |-> content]]

handleSave ==
    /\ MainUI
    /\ selectedFile # NoNode
    /\ CanAct
    /\ IF localFiles[selectedFile.path].has
       THEN /\ localFiles' = SetLocal(localFiles, selectedFile.path, fileContent)
            /\ originalContent' = fileContent
            /\ event' = Ev("SaveLocal", None)
            /\ UNCHANGED <<saves, loading>>
       ELSE /\ githubAPI /\ selectedRepo # None /\ selectedBranch # None
            /\ CanIssue
            /\ loading' = TRUE
            /\ saves' = Append(saves,
                   [file |-> selectedFile,
                    content |-> SavePayload(fileContent, originalContent),
                    asked |-> fileContent,
                    stage |-> "update", cap |-> Closure])
            /\ event' = Ev("SaveIssued", None)
            /\ UNCHANGED <<localFiles, originalContent>>
    /\ userOps' = userOps + 1
    /\ UNCHANGED <<formVars, aiVars, authVars, repoVars, treeVars, selectedFile, fileContent, loads,
                   selects, listings, serverVars>>

\* The service accepts an update that names the current token of the path.
TokenCurrent(ref, path, sha) ==
    RemoteHasFile(ref, path) /\ remote[ref][path].sha = sha

\* updateFile resolves: the service stores the content under a new token.
SaveUpdateOK(i) ==
    LET s == saves[i]
        ref == <<s.cap.repo, s.cap.branch>>
        p == s.file.path
    IN
    /\ s.stage = "update"
    /\ TokenCurrent(ref, p, s.file.sha)
    /\ remote' = [remote EXCEPT ![ref][p] =
                     [content |-> s.content, sha |-> remote[ref][p].sha + 1]]
    /\ lastSaved' = [lastSaved EXCEPT ![ref][p] = s.asked]
    /\ originalContent' = s.content
    /\ saves' = [saves EXCEPT ![i].stage = "commits"]
    /\ event' = Ev("SaveUpdateOK", "File saved successfully!")
    /\ UNCHANGED <<formVars, aiVars, authVars, repoVars, treeVars, selectedFile, fileContent,
                   localFiles, loads, selects, listings, branchBase,
                   remoteChanges, loading, userOps>>

SaveCommitsOK(i) ==
    LET s == saves[i] IN
    /\ s.stage = "commits"
    /\ RemoteHasRef(<<s.cap.repo, s.cap.branch>>)
    /\ commits' = CommitsAt(<<s.cap.repo, s.cap.branch>>)
    /\ loading' = FALSE
    /\ saves' = RemoveAt(saves, i)
    /\ event' = Ev("SaveCommitsOK", None)
    /\ UNCHANGED <<formVars, aiVars, authVars, repos, selectedRepo, branches, selectedBranch,
                   treeVars, sessionVars, loads, selects, listings, serverVars,
                   userOps>>

\* A catch block that marks the content as saved all the same.
SaveRejectedMarksSaved(i, op) ==
    LET s == saves[i] IN
    /\ loading' = FALSE
    /\ saves' = RemoveAt(saves, i)
    /\ originalContent' = s.content
    /\ event' = Ev(op, "Failed to save file")
    /\ UNCHANGED <<formVars, aiVars, authVars, repoVars, treeVars, selectedFile, fileContent,
                   localFiles, loads, selects, listings, serverVars, userOps>>

\* The catch block of handleSave.
SaveRejected(i, op) ==
    LET s == saves[i] IN
    /\ loading' = FALSE
    /\ saves' = RemoveAt(saves, i)
    /\ event' = Ev(op, "Failed to save file")
    /\ UNCHANGED <<formVars, aiVars, authVars, repoVars, treeVars, sessionVars, loads, selects,
                   listings, serverVars, userOps>>

\* updateFile names a token that is not the current one: Conflict.
SaveConflict(i) ==
    /\ saves[i].stage = "update"
    /\ ~TokenCurrent(<<saves[i].cap.repo, saves[i].cap.branch>>,
                     saves[i].file.path, saves[i].file.sha)
    /\ SaveRejected(i, "SaveConflict")

\* updateFile fails in transit.
SaveNetworkError(i) ==
    /\ saves[i].stage = "update"
    /\ SaveRejected(i, "SaveNetworkError")

\* getCommits rejects after the update was stored.
SaveCommitsFail(i) ==
    /\ saves[i].stage = "commits"
    /\ SaveRejected(i, "SaveCommitsFail")

(***************************************************************************)
(* Creating files and folders: FileTree.handleCreate, handleCreateFile,    *)
(* handleCreateFolder.                                                     *)
(***************************************************************************)
\* Names the user types into the create form.
FileNames == {"index.html", "new.js"}
FolderNames == {"lib"}

\* fileName.split('.').pop()?.toLowerCase()
\* (the text after the last dot, in lower case; the whole name if it has no
\* dot).
Ext(fileName) ==
    CASE fileName = "index.html" -> "html"
      [] fileName = "new.js" -> "js"
      [] fileName = "style.css" -> "css"
      [] fileName = "main.ts" -> "ts"
      [] fileName = "App.jsx" -> "jsx"
      [] fileName = "App.tsx" -> "tsx"
      [] fileName = "data.json" -> "json"
      [] fileName = "README.MD" -> "md"
      [] fileName = "archive.tar.gz" -> "gz"
      [] fileName = "Makefile" -> "makefile"
      [] fileName = "html" -> "html"
      [] OTHER -> fileName

\* File names of every kind getDefaultFileContent tells apart.
TemplateNames ==
    {"index.html", "new.js", "style.css", "main.ts", "App.jsx", "App.tsx",
     "data.json", "README.MD", "archive.tar.gz", "Makefile", "html"}

\* A template function whose stub for the other extensions is empty.
getDefaultFileContentEmptyStub(fileName) ==
    IF Ext(fileName) \in {"html", "css", "js", "ts", "jsx", "tsx", "json", "md"}
    THEN "template" ELSE ""

\* getDefaultFileContent: one template per recognised extension, a stub for
\* the rest.
getDefaultFileContent(fileName) ==
    CASE Ext(fileName) = "html" -> "<!DOCTYPE html>..."
      [] Ext(fileName) = "css" -> "/* Modern CSS Reset */..."
      [] Ext(fileName) = "js" -> "// Modern JavaScript..."
      [] Ext(fileName) = "ts" -> "// TypeScript..."
      [] Ext(fileName) = "jsx" -> "import React ... jsx"
      [] Ext(fileName) = "tsx" -> "import React ... tsx"
      [] Ext(fileName) = "json" -> "{ ... }"
      [] Ext(fileName) = "md" -> "# title ..."
      [] OTHER -> "// fileName ... console.log"

\* `${createPath}/${newItemName}` when createPath is set; it never is.
FullPath(createPath, newItemName) ==
    IF createPath # "" THEN "nested" ELSE newItemName

\* setFiles(prev => [...prev, newFile])
AddToFiles(prev, newFile) == Append(prev, newFile)

handleCreateFile(name) ==
    LET path == FullPath("", name)
        newFile == [path |-> path, type |-> "file", sha |-> 0, origin |-> LocalOrigin]
        defaultContent == getDefaultFileContent(name)
    IN
    /\ MainUI
    /\ CanAct
    /\ Len(files) < MaxFiles
    /\ files' = AddToFiles(files, newFile)
    /\ localFiles' = [localFiles EXCEPT ![path] =
                         [has |-> TRUE, content |-> defaultContent]]
    /\ selectedFile' = newFile
    /\ fileContent' = defaultContent
    /\ originalContent' = ""
    /\ event' = Ev("CreateFile", None)
    /\ userOps' = userOps + 1
    /\ UNCHANGED <<formVars, authVars, repoVars, expandedFolders, folderContents,
                   flightVars, serverVars, loading>>

handleCreateFolder(name) ==
    LET path == FullPath("", name)
        newFolder == [path |-> path, type |-> "dir", sha |-> 0, origin |-> LocalOrigin]
    IN
    /\ MainUI
    /\ CanAct
    /\ Len(files) < MaxFiles
    /\ files' = AddToFiles(files, newFolder)
    /\ expandedFolders' = expandedFolders \cup {path}
    /\ event' = Ev("CreateFolder", None)
    /\ userOps' = userOps + 1
    /\ UNCHANGED <<formVars, authVars, repoVars, folderContents, sessionVars, flightVars,
                   serverVars, loading>>

(***************************************************************************)
(* Folders: FileTree.handleFolderClick, handleLoadFolderContents,          *)
(* handleToggleFolder.                                                     *)
(***************************************************************************)
\* handleToggleFolder on the expandedFolders of its closure.
Toggle(expanded, path) ==
    IF path \in expanded THEN expanded \ {path} ELSE expanded \cup {path}

\* Whether a click on a collapsed folder has to load its contents first.
NeedsLoad(path) == ~folderContents[path].has

handleFolderClick(folder) ==
    /\ MainUI
    /\ folder \in DisplayedSet
    /\ folder.type = "dir"
    /\ CanAct
    /\ IF /\ folder.path \notin expandedFolders
          /\ NeedsLoad(folder.path)
          /\ githubAPI /\ selectedRepo # None /\ selectedBranch # None
       THEN /\ CanIssue
            /\ loading' = TRUE
            /\ listings' = Append(listings, [folder |-> folder, cap |-> Closure,
                                              expanded |-> expandedFolders])
            /\ event' = Ev("ListingIssued", None)
            /\ UNCHANGED expandedFolders
       ELSE /\ expandedFolders' = Toggle(expandedFolders, folder.path)
            /\ event' = Ev("Toggle", None)
            /\ UNCHANGED <<listings, loading>>
    /\ userOps' = userOps + 1
    /\ UNCHANGED <<formVars, aiVars, authVars, repoVars, files, folderContents, sessionVars, loads,
                   selects, saves, serverVars>>

\* getRepoContents of the folder resolves: the listing is cached, then the
\* suspended handleFolderClick toggles the folder.
ListingOK(i) ==
    LET l == listings[i]
        ref == <<l.cap.repo, l.cap.branch>>
    IN
    /\ RemoteHasRef(ref) /\ RemoteHasDir(branchBase[ref], l.folder.path)
    /\ folderContents' = [folderContents EXCEPT ![l.folder.path] =
                             [has |-> TRUE, items |-> ListingNodes(ref, l.folder.path)]]
    /\ loading' = FALSE
    /\ expandedFolders' = Toggle(l.expanded, l.folder.path)
    /\ listings' = RemoveAt(listings, i)
    /\ event' = Ev("ListingOK", None)
    /\ UNCHANGED <<formVars, aiVars, authVars, repoVars, files, sessionVars, loads, selects, saves,
                   serverVars, userOps>>

\* getRepoContents rejects: handleLoadFolderContents logs and returns, and the
\* suspended handleFolderClick toggles the folder all the same.
ListingFail(i) ==
    LET l == listings[i] IN
    /\ loading' = FALSE
    /\ expandedFolders' = Toggle(l.expanded, l.folder.path)
    /\ listings' = RemoveAt(listings, i)
    /\ event' = Ev("ListingFail", None)
    /\ UNCHANGED <<formVars, aiVars, authVars, repoVars, files, folderContents, sessionVars, loads,
                   selects, saves, serverVars, userOps>>

(***************************************************************************)
(* Somebody else commits to a file while this client's update of it is on   *)
(* its way: the write the service sees first makes the other one stale.     *)
(***************************************************************************)
RemoteChange(i) ==
    LET ref == <<saves[i].cap.repo, saves[i].cap.branch>>
        path == saves[i].file.path
    IN
    /\ remoteChanges < MaxRemoteChanges
    /\ saves[i].stage = "update"
    /\ RemoteHasFile(ref, path)
    /\ remote' = [remote EXCEPT ![ref][path] =
                     [content |-> "theirs", sha |-> remote[ref][path].sha + 1]]
    /\ lastSaved' = [lastSaved EXCEPT ![ref][path] = None]
    /\ remoteChanges' = remoteChanges + 1
    /\ event' = Ev("RemoteChange", None)
    /\ UNCHANGED <<formVars, authVars, repoVars, treeVars, sessionVars, flightVars,
                   branchBase, loading, userOps>>

(***************************************************************************)
(* AIAgent.handleSendMessage.                                              *)
(***************************************************************************)
\* Replies of the assistant, as the fenced blocks they contain: the language
\* tag after the opening fence ("" for none), the trimmed body, its length,
\* and whether it contains one of 'function', 'const', 'import', 'export'.
AIReplies ==
    { << >>,
      << [lang |-> "js", text |-> "snippet", length |-> 40, keyword |-> TRUE] >>,
      << [lang |-> "", text |-> "edge", length |-> 100, keyword |-> TRUE] >>,
      << [lang |-> "ts", text |-> "ai-code", length |-> 120, keyword |-> TRUE] >>,
      << [lang |-> "python", text |-> "ai-code", length |-> 120, keyword |-> TRUE] >>,
      << [lang |-> "css", text |-> "prose", length |-> 150, keyword |-> FALSE],
         [lang |-> "", text |-> "ai-code", length |-> 150, keyword |-> TRUE] >> }

\* The language tags codeBlockRegex accepts after the opening fence.
FenceLangs == {"javascript", "typescript", "jsx", "tsx", "html", "css", "js", "ts"}

\* The while loop over codeBlockRegex.exec(aiResponse): the bodies of the
\* fenced blocks whose tag is one of FenceLangs or missing.
codeBlockRegex(reply) ==
    SelectSeq(reply, LAMBDA b : b.lang \in FenceLangs \cup {""})

\* codeBlocks.find(code => code.length > 100 && (code.includes(...) || ...))
substantialCode(codeBlocks) ==
    IF \E k \in 1..Len(codeBlocks) :
           codeBlocks[k].length > 100 /\ codeBlocks[k].keyword
    THEN codeBlocks[CHOOSE k \in 1..Len(codeBlocks) :
             /\ codeBlocks[k].length > 100 /\ codeBlocks[k].keyword
             /\ \A j \in 1..(k - 1) :
                   ~(codeBlocks[j].length > 100 /\ codeBlocks[j].keyword)].text
    ELSE None

\* Answers of the completion API: the HTTP status and, for a 200, what the
\* body holds: no candidates, a candidate without parts, a part without
\* text, or a part with the text of a reply.
AIResponses ==
    {[status |-> s, body |-> "none", reply |-> << >>] :
        s \in {400, 401, 403, 404, 429, 500, 503}}
    \cup {[status |-> 200, body |-> b, reply |-> << >>] :
        b \in {"noCandidates", "noParts", "noText"}}
    \cup {[status |-> 200, body |-> "text", reply |-> r] : r \in AIReplies}

\* generateResponse from the answer of fetch on: it returns the text of the
\* reply or throws an Error with a message.
generateResponse(resp) ==
    IF resp.status # 200
    THEN [ok |-> FALSE,
          message |-> CASE resp.status = 400 -> "Invalid API request"
                        [] resp.status = 401 -> "Authentication failed"
                        [] resp.status = 403 -> "Access denied"
                        [] resp.status = 429 -> "Too many requests"
                        [] resp.status >= 500 -> "The AI service is having issues"
                        [] OTHER -> "Failed to get AI response",
          reply |-> << >>]
    ELSE IF resp.body \in {"noCandidates", "noParts"}
    THEN [ok |-> FALSE, message |-> "unexpected response format", reply |-> << >>]
    ELSE IF resp.body = "noText"
    THEN [ok |-> TRUE, message |-> "I apologize", reply |-> << >>]
    ELSE [ok |-> TRUE, message |-> None, reply |-> resp.reply]

\* isLoading of AIAgent: a message is awaiting its reply.
isLoading == asks # << >>

\* The user sends a message: generateResponse is called.
handleSendMessage ==
    /\ MainUI
    /\ ~isLoading
    /\ CanAct /\ CanIssue
    /\ asks' = Append(asks, [fileName |-> selectedFile.path])
    /\ event' = Ev("AskIssued", None)
    /\ userOps' = userOps + 1
    /\ UNCHANGED <<formVars, authVars, repoVars, treeVars, sessionVars, loads, selects,
                   saves, listings, timers, serverVars, loading>>

\* The reply arrives: it is shown, and a block of substantial code in it is
\* scheduled to be applied two seconds later.
AskOK(i, reply) ==
    /\ asks' = RemoveAt(asks, i)
    /\ timers' = IF substantialCode(codeBlockRegex(reply)) # None
                 THEN Append(timers, [code |-> substantialCode(codeBlockRegex(reply)),
                                      fileName |-> asks[i].fileName])
                 ELSE timers
    /\ event' = Ev("AskOK", None)
    /\ UNCHANGED <<formVars, authVars, repoVars, treeVars, sessionVars, loads, selects,
                   saves, listings, serverVars, loading, userOps>>

\* generateResponse throws: the message of the error is shown in the chat.
AskFail(i) ==
    /\ asks' = RemoveAt(asks, i)
    /\ event' = Ev("AskFail", "AI error message")
    /\ UNCHANGED <<formVars, authVars, repoVars, treeVars, sessionVars, loads, selects,
                   saves, listings, timers, serverVars, loading, userOps>>

\* The timer fires: onCodeChange(substantialCode), that is, setFileContent.
AutoApply(i) ==
    /\ fileContent' = timers[i].code
    /\ timers' = RemoveAt(timers, i)
    /\ event' = Ev("AutoApply", None)
    /\ UNCHANGED <<formVars, authVars, repoVars, treeVars, selectedFile, originalContent,
                   localFiles, loads, selects, saves, listings, asks, serverVars,
                   loading, userOps>>

(***************************************************************************)
(* The specification.                                                      *)
(***************************************************************************)
Next ==
    \/ \E field \in Fields, value \in TokenValues : handleTokenChange(field, value)
    \/ \E i \in 1..Len(verifs), reached \in BOOLEAN : verifyToken(i, reached)
    \/ handleSubmit
    \/ HandleAuth
    \/ \E i \in 1..Len(loads) : AuthUserOK(i)
    \/ \E i \in 1..Len(loads) : AuthReposOK(i)
    \/ \E i \in 1..Len(loads) : AuthFail(i)
    \/ handleLogout
    \/ \E repo \in Repos : handleRepoSelect(repo)
    \/ \E i \in 1..Len(loads) : BranchesOK(i)
    \/ \E branch \in Branches : handleBranchSelect(branch)
    \/ \E i \in 1..Len(loads) : RootOK(i)
    \/ \E i \in 1..Len(loads) : CommitsOK(i)
    \/ \E i \in 1..Len(loads) : IndexOK(i)
    \/ \E i \in 1..Len(loads) : LoadFail(i)
    \/ \E branchName \in NewBranchNames : handleCreateBranch(branchName)
    \/ \E i \in 1..Len(loads) : CreateBranchOK(i)
    \/ \E i \in 1..Len(loads) : CreateBranchListed(i)
    \/ \E i \in 1..Len(loads) : CreateBranchFail(i)
    \/ \E file \in DisplayedSet : handleFileSelect(file)
    \/ \E i \in 1..Len(selects) : SelectOK(i)
    \/ \E i \in 1..Len(selects) : SelectFail(i)
    \/ \E newText \in Typed : edit(newText)
    \/ handleSave
    \/ \E i \in 1..Len(saves) : SaveUpdateOK(i)
    \/ \E i \in 1..Len(saves) : SaveCommitsOK(i)
    \/ \E i \in 1..Len(saves) : SaveConflict(i)
    \/ \E i \in 1..Len(saves) : SaveNetworkError(i)
    \/ \E i \in 1..Len(saves) : SaveCommitsFail(i)
    \/ \E name \in FileNames : handleCreateFile(name)
    \/ \E name \in FolderNames : handleCreateFolder(name)
    \/ \E folder \in DisplayedSet : handleFolderClick(folder)
    \/ \E i \in 1..Len(listings) : ListingOK(i)
    \/ \E i \in 1..Len(listings) : ListingFail(i)
    \/ \E i \in 1..Len(saves) : RemoteChange(i)
    \/ handleSendMessage
    \/ \E i \in 1..Len(asks), resp \in AIResponses :
          generateResponse(resp).ok /\ AskOK(i, generateResponse(resp).reply)
    \/ \E i \in 1..Len(asks), resp \in AIResponses :
          ~generateResponse(resp).ok /\ AskFail(i)
    \/ \E i \in 1..Len(timers) : AutoApply(i)

Spec == Init /\ [][Next]_vars

(***************************************************************************)
(* Properties.                                                             *)
(***************************************************************************)
SelectedRef == <<selectedRepo, selectedBranch>>

NothingInFlight == loads = << >> /\ selects = << >> /\ saves = << >> /\ listings = << >>

\* The repository, path and token of the update that save i has in flight.
SaveRef(i) == <<saves[i].cap.repo, saves[i].cap.branch>>

\* C1: after a successful remote save the selected node's revision token is
\* the token the service now holds for the file (the one it returned for the
\* write), so that the next save of the file is accepted.
C1_TokenFollowsSave ==
    \A i \in 1..Len(saves) :
        ( /\ event.op = "SaveUpdateOK"
          /\ saves[i].stage = "commits"
          /\ selectedFile = saves[i].file )
        => selectedFile.sha = remote[SaveRef(i)][saves[i].file.path].sha

\* C2: after createFile(name, p), whatever the tree held before, p is a key
\* of the local overlay and the displayed tree holds exactly one node with
\* path p.
C2_CreateFileUniquePath ==
    event.op = "CreateFile"
    => /\ localFiles[selectedFile.path].has
       /\ CountPath(selectedFile.path) = 1

\* C3: whenever a file is selected and nothing is in flight, savedContent is
\* the content stored for the selected path: the overlay's value for a local
\* path, the service's content for a remote one (nobody else having written),
\* so that dirty tells exactly whether the editor's text differs from it.
C3_SavedContentIsStored ==
    (selectedFile # NoNode /\ NothingInFlight)
    => IF localFiles[selectedFile.path].has
       THEN originalContent = localFiles[selectedFile.path].content
       ELSE ( /\ remoteChanges = 0
              /\ selectedFile.origin = SelectedRef
              /\ RemoteHasFile(SelectedRef, selectedFile.path) )
            => originalContent = remote[SelectedRef][selectedFile.path].content

\* C4: last select wins: the completion of a fetch that a later select has
\* superseded changes neither the selection nor the contents.
C4_LastSelectWins ==
    [][ \A i \in 1..Len(selects) :
          ( /\ selects[i].superseded
            /\ selects' = RemoveAt(selects, i)
            /\ event'.op = "SelectOK" )
          => UNCHANGED <<selectedFile, fileContent, originalContent>> ]_vars

\* C5: while the content fetch of a select is in flight no edit is accepted:
\* the editor's text does not change by typing until the fetch has resolved or
\* failed.
C5_NoEditWhileSelecting ==
    event.op = "Edit"
    => /\ selects = << >>
       /\ \A i \in 1..Len(loads) : loads[i].stage # "index"

\* C6: a remote save whose token is not the service's current token for the
\* path is rejected, and the rejection leaves the editor's text, the saved
\* snapshot, the selected node with its token and the stored file unchanged
\* (a dirty session stays dirty) and shows the user an error.
C6_ConflictKeepsSession ==
    [][ \A i \in 1..Len(saves) :
          ( /\ saves[i].stage = "update"
            /\ ~TokenCurrent(SaveRef(i), saves[i].file.path, saves[i].file.sha)
            /\ \/ saves' = RemoveAt(saves, i)
               \/ saves' = [saves EXCEPT ![i].stage = "commits"] )
          => /\ saves' = RemoveAt(saves, i)
             /\ event'.alert = "Failed to save file"
             /\ UNCHANGED <<selectedFile, fileContent, originalContent, remote>>
             /\ hasChanges' = hasChanges ]_vars

\* C6 witness: a dirty session after its save was rejected for a stale token.
C6_Witness ==
    /\ event.op = "SaveConflict"
    /\ selectedFile # NoNode
    /\ hasChanges
    /\ RemoteHasFile(SelectedRef, selectedFile.path)
    /\ remote[SelectedRef][selectedFile.path].sha # selectedFile.sha

\* C7: round trip: a select that resolves for a path whose last write was a
\* successful save of content c by this session loads c as the editor's text
\* and as the saved snapshot.
C7_SaveSelectRoundTrip ==
    [][ \A i \in 1..Len(selects) :
          LET ref == <<selects[i].cap.repo, selects[i].cap.branch>>
              p == selects[i].file.path
          IN ( /\ selects' = RemoveAt(selects, i)
               /\ event'.op = "SelectOK"
               /\ RemoteHasFile(ref, p)
               /\ lastSaved[ref][p] # None )
             => /\ fileContent' = lastSaved[ref][p]
                /\ originalContent' = lastSaved[ref][p]
                /\ selectedFile'.path = p ]_vars

\* C7 witness: the typed text, saved to the service, is back in the editor
\* after a select of the same path.
C7_Witness ==
    /\ event.op = "SelectOK"
    /\ RemoteHasFile(SelectedRef, selectedFile.path)
    /\ lastSaved[SelectedRef][selectedFile.path] = "x"
    /\ fileContent = "x"
    /\ originalContent = "x"

\* C8: no directory has more than one listing fetch: never two in flight for
\* the same path, and none for a path that has a cache entry.
C8_OneListingFetch ==
    \A i \in 1..Len(listings) :
        /\ ~folderContents[listings[i].folder.path].has
        /\ \A j \in 1..Len(listings) :
              listings[j].folder.path = listings[i].folder.path => j = i

\* C9: a directory that came from a remote listing is expanded only with its
\* listing in the cache.
C9_ExpandedImpliesCached ==
    \A k \in 1..Len(files) :
        ( /\ files[k].type = "dir"
          /\ files[k].origin # LocalOrigin
          /\ files[k].path \in expandedFolders )
        => folderContents[files[k].path].has

\* C10: when selecting a repository or a branch fails, the selected
\* repository and branch are those from before the attempt (the ones the
\* displayed tree and the session came from).
C10_FailedLoadRestores ==
    [][ \A i \in 1..Len(loads) :
          ( /\ loads[i].kind \in {"repo", "branch"}
            /\ loads[i].cap.repo # None
            /\ loads' = RemoveAt(loads, i)
            /\ event'.op = "LoadFail" )
          => /\ selectedRepo' = loads[i].cap.repo
             /\ selectedBranch' = loads[i].cap.branch ]_vars

\* The nodes of a cached listing all came from `ref`.
CacheFrom(cache, ref) ==
    \A p \in Paths :
        \A k \in 1..Len(cache[p].items) : cache[p].items[k].origin = ref

\* C11: when a repository or branch switch completes (loadRepoFiles has run to
\* its end without a failure), the selected file and every cached listing
\* contain no node of the previous repository/branch; after a logout the
\* overlay, the cache, the expansion set, the root list and the selection are
\* all empty.
C11_SwitchClearsTree ==
    [][ /\ \A i \in 1..Len(loads) :
              ( /\ loads[i].kind \in {"repo", "branch"}
                /\ loads' = RemoveAt(loads, i)
                /\ event'.op \in {"CommitsOK", "IndexOK"} )
              => /\ selectedFile'.origin \in
                        {<<loads[i].repo, loads[i].branch>>, NoNode.origin, LocalOrigin}
                 /\ CacheFrom(folderContents', <<loads[i].repo, loads[i].branch>>)
        /\ event'.op = "Logout"
              => /\ files' = << >> /\ selectedFile' = NoNode
                 /\ \A p \in Paths : ~localFiles'[p].has /\ ~folderContents'[p].has
                 /\ expandedFolders' = {} ]_vars

\* C12: every step that changes the selected branch to a branch leaves a
\* reload of that branch on its way: loadRepoFiles has been called for the
\* selected repository and the new branch (root listing, then commit list).
C12_BranchChangeReloads ==
    [][ (selectedBranch' # selectedBranch /\ selectedBranch' # None)
        => \E i \in 1..Len(loads') :
              /\ loads'[i].kind \in {"repo", "branch"}
              /\ loads'[i].stage = "root"
              /\ loads'[i].branch = selectedBranch' ]_vars

\* C13: code found in a reply of the assistant is written into the editor's
\* content only by a step the user takes: no step other than a user
\* operation (one counted in userOps, or typing) sets fileContent to a
\* candidate of a pending timer.
C13_ApplyNeedsConfirmation ==
    [][ \A i \in 1..Len(timers) :
            (fileContent' = timers[i].code /\ fileContent # timers[i].code)
            => (userOps' = userOps + 1 \/ event'.op = "Edit") ]_vars

\* C14: a displayed node that came from a remote listing is never a key of
\* the local overlay (so handleFileSelect and handleSave take their remote
\* branch for it), also after a file of the same path was created.
C14_RemoteNodeNeverLocal ==
    \A k \in 1..Len(Displayed) :
        (Displayed[k].type = "file" /\ Displayed[k].origin # LocalOrigin)
        => ~localFiles[Displayed[k].path].has

\* C15: after every select that has loaded its file (from the overlay or
\* from the service), the session is clean: fileContent = originalContent;
\* in particular after a second select of the file that was selected already.
C15_SelectLeavesClean ==
    event.op \in {"SelectLocal", "SelectOK", "IndexOK"} => ~hasChanges

\* A remote file whose fetch succeeded is selected again, and a file made by
\* handleCreateFile (dirty from its creation) is selected.
C15_Witness ==
    /\ event.op \in {"SelectLocal", "SelectOK"}
    /\ event.again
    /\ ~hasChanges
    /\ fileContent # ""

\* C16: a folder made by handleCreateFolder is expanded right after its
\* creation, and no listing is ever fetched for it: no call of
\* onLoadFolderContents is in flight for a folder that exists only locally,
\* also after it was collapsed and expanded again.
C16_NewFolderNeverFetched ==
    /\ event.op = "CreateFolder" => \A n \in FolderNames :
           (\E k \in 1..Len(files) :
                files[k].path = n /\ files[k].origin = LocalOrigin)
           => n \in expandedFolders
    /\ \A i \in 1..Len(listings) : listings[i].folder.origin # LocalOrigin

\* The steps in which a call to the remote service has failed.
RemoteFailures ==
    {"AuthFail", "LoadFail", "CreateBranchFail", "ListingFail", "SelectFail",
     "SaveConflict", "SaveNetworkError", "SaveCommitsFail"}

\* C17: every failure of a remote call shows the user a message: the step in
\* which the call fails raises an alert.
C17_FailuresAreShown ==
    event.op \in RemoteFailures => event.alert # None

\* C18: the step in which the content fetch of a select fails leaves the
\* selected file, fileContent and originalContent (and so hasChanges) as
\* they were.
C18_FailedSelectKeepsSession ==
    [][ event'.op = "SelectFail"
        => /\ UNCHANGED <<selectedFile, fileContent, originalContent>>
           /\ hasChanges' = hasChanges ]_vars

\* The fetch of a select has failed while another file was open and dirty.
C18_Witness ==
    /\ event.op = "SelectFail"
    /\ selectedFile # NoNode /\ selectedFile.origin # LocalOrigin
    /\ hasChanges

C20_LocalSaveFrame ==
    [][ (selectedFile # NoNode /\ localFiles[selectedFile.path].has
         /\ event'.op \in {"SaveLocal", "SaveIssued"})
        => /\ event'.op = "SaveLocal"
           /\ localFiles'[selectedFile.path] = [has |-> TRUE, content |-> fileContent]
           /\ \A p \in Paths \ {selectedFile.path} : localFiles'[p] = localFiles[p]
           /\ originalContent' = fileContent
           /\ ~hasChanges'
           /\ UNCHANGED <<selectedFile, fileContent, treeVars, flightVars,
                          serverVars, loading>> ]_vars

\* An edited local file has been saved while the overlay holds another file.
C20_Witness ==
    /\ event.op = "SaveLocal"
    /\ selectedFile.path = "new.js"
    /\ localFiles["new.js"] = [has |-> TRUE, content |-> "x"]
    /\ localFiles["index.html"].has
    /\ originalContent = "x"

C22_AskErrorMapping ==
    \A i \in 1..Len(asks), resp \in AIResponses :
        LET out == generateResponse(resp) IN
        /\ resp.status = 400 => (~out.ok /\ out.message = "Invalid API request")
        /\ resp.status = 401 => (~out.ok /\ out.message = "Authentication failed")
        /\ resp.status = 403 => (~out.ok /\ out.message = "Access denied")
        /\ resp.status = 429 => (~out.ok /\ out.message = "Too many requests")
        /\ resp.status >= 500
              => (~out.ok /\ out.message = "The AI service is having issues")
        /\ (resp.status = 200 /\ resp.body # "text")
              => (~out.ok /\ out.message = "unexpected response format")
        /\ ~out.ok => substantialCode(codeBlockRegex(out.reply)) = None

\* C23: for a message that awaits its reply, whatever the reply is, the
\* extraction step finds the candidate in a reply with one fenced
\* block that is longer than 100 characters and contains a keyword, and
\* finds none in a reply without a fenced block or with only blocks that are
\* at most 100 characters long or contain no keyword.
C23_ExtractionFindsCandidate ==
    \A i \in 1..Len(asks), reply \in AIReplies :
        LET candidate == substantialCode(codeBlockRegex(reply))
            Substantial(b) == b.length > 100 /\ b.keyword
        IN
        /\ (Len(reply) = 1 /\ Substantial(reply[1])) => candidate = reply[1].text
        /\ Len(reply) = 0 => candidate = None
        /\ (\A k \in 1..Len(reply) : ~Substantial(reply[k])) => candidate = None

\* C24: the delayed apply of a candidate writes into the editor only if the
\* file selected now is the one that was selected when the question was
\* sent; otherwise fileContent stays as it is.
C24_ApplyOnlyToAskedFile ==
    [][ \A i \in 1..Len(timers) :
            ( /\ event'.op = "AutoApply"
              /\ timers' = RemoveAt(timers, i)
              /\ timers[i].fileName # selectedFile.path )
            => fileContent' = fileContent ]_vars

\* C25: when updateFile resolves for a file that is no longer the selected
\* one, originalContent (and with it the dirty flag of the session that is
\* open now) is left as the select of that session set it.
C25_LateSaveKeepsSession ==
    [][ \A i \in 1..Len(saves) :
            ( /\ event'.op = "SaveUpdateOK"
              /\ saves[i].stage = "update"
              /\ saves' = [saves EXCEPT ![i].stage = "commits"]
              /\ saves[i].file # selectedFile )
            => /\ originalContent' = originalContent
               /\ hasChanges' = hasChanges ]_vars

\* C26: the token form submits only values that were verified valid: at the
\* step of handleSubmit the text of each field is a token the service
\* accepts.
C26_SubmitsVerifiedTokens ==
    [][ event'.op = "Submit"
        => \A f \in Fields : ServiceAccepts(formToken[f]) ]_vars

\* C27: toggling a folder changes the expansion state of that folder only:
\* when the listing fetch of a folder click completes, and at a click or a
\* folder creation, every other path keeps its membership in
\* expandedFolders.
C27_ToggleChangesOneFolder ==
    [][ LET changed == (expandedFolders' \ expandedFolders)
                          \cup (expandedFolders \ expandedFolders')
        IN /\ \A i \in 1..Len(listings) :
                  ( /\ event'.op \in {"ListingOK", "ListingFail"}
                    /\ listings' = RemoveAt(listings, i) )
                  => changed \subseteq {listings[i].folder.path}
           /\ event'.op \in {"Toggle", "CreateFolder"}
              => Cardinality(changed) <= 1 ]_vars

\* C28: "Failed to save file" is reported only if the file was not saved:
\* the save whose handler reports it is one whose update-file call has not
\* succeeded (it is not at the reload of the commit list).
C28_FailureOnlyIfNotSaved ==
    [][ \A i \in 1..Len(saves) :
            ( /\ event'.alert = "Failed to save file"
              /\ saves' = RemoveAt(saves, i) )
            => saves[i].stage = "update" ]_vars

\* C29: after handleAuth reports "Authentication failed" the application is
\* unauthenticated, without API client and user; and isAuthenticated holds
\* only together with an API client and a user.
C29_AuthFailedMeansSignedOut ==
    /\ event.alert = "Authentication failed"
       => (~isAuthenticated /\ ~githubAPI /\ ~user)
    /\ isAuthenticated => (githubAPI /\ user)

\* The remote operations in flight that the loading flag covers.
RemoteInFlight == Len(loads) + Len(selects) + Len(saves) + Len(listings)

\* C30: the loading flag is true whenever a remote operation is in flight
\* and false once none is; the completion of one operation leaves it set
\* while another is still in flight.
C30_LoadingCoversInFlight ==
    [][ /\ (loading /\ 0 < RemoteInFlight' /\ RemoteInFlight' < RemoteInFlight)
           => loading'
        /\ (RemoteInFlight' = 0 /\ RemoteInFlight > 0) => ~loading' ]_vars

=============================================================================
